---- MODULE Spec2Model ----
(***************************************************************************)
(* Model of the Poseidon2 "skinny" chip helpers of sp1's recursion core    *)
(* (crates/recursion/core-v2/src/chips/poseidon2_skinny/mod.rs) and of the *)
(* Groth16 prover start-up (recursion/gnark-ffi/src/groth16.rs).           *)
(*                                                                         *)
(* Field elements are BabyBear values in canonical form, 0 .. P-1.  Rust   *)
(* arrays are 0-based; the sequences below are 1-based, so slot k of the   *)
(* source is index k+1 here.                                               *)
(***************************************************************************)
EXTENDS Integers, Sequences, FiniteSets, TLC

VARIABLES
    DEGREE,       \* the const generic of Poseidon2SkinnyChip::<DEGREE>
    chip,         \* result of Poseidon2SkinnyChip::default(): NotBuilt, Panicked or the chip
    x_in,         \* the 4-element slice handed to apply_m_4
    x,            \* the same slice, mutated in place by apply_m_4
    m4_pc,        \* "ready" before apply_m_4 ran on x, "done" after
    state_in,     \* a 16-element state before a linear layer
    other_in,     \* a second 16-element state before the layer
    scalar,       \* a field scalar
    state,        \* the layer applied to state_in
    other,        \* the layer applied to other_in
    of_sum,       \* the layer applied to state_in + other_in
    of_scaled,    \* the layer applied to scalar * state_in
    layer,        \* which layer produced the four results: "none", "external", "internal"
    test,         \* which program the runtime was built with: "poseidon2", "memory" or "idle"
    program,      \* RecursionProgram.instructions
    ip,           \* 1-based index of the next instruction
    memory,       \* the runtime's memory: address -> field element, for the written addresses
    record,       \* the runtime's event record
    status,       \* "Ready", "Executing", "Halted" or "Faulted"
    trace,        \* "none" until the record was handed to the trace generator
    host_port,    \* the environment variable HOST_PORT: NoEnv or a string
    prover,       \* NoProver until Groth16Prover::new builds Self { port }
    server_port,  \* the --port argument the spawned thread starts the Gnark server with
    server,       \* the server process: "none", "running", "listening", "ready", "exited"
    thread,       \* the spawned thread: "none", "spawned", "waiting", "finished", "panicked"
    pc,           \* Groth16Prover::new: "start", "polling", "sleeping", "returned"
    polls,        \* health checks sent so far (counted up to MaxPolls)
    last_response, \* outcome of the latest health check: "none", "OK", "NotOK", "Err"
    requests      \* the health checks sent so far: pairs <<port, outcome>>

chipVars == <<DEGREE, chip, x_in, x, m4_pc>>
layerVars == <<state_in, other_in, scalar, state, other, of_sum, of_scaled, layer>>
runtimeVars == <<test, program, ip, memory, record, status, trace>>
proverVars ==
    <<host_port, prover, server_port, server, thread, pc, polls, last_response, requests>>
vars == <<chipVars, layerVars, runtimeVars, proverVars>>

----------------------------------------------------------------------------
(* Bounds of the model *)

\* input field values are drawn from 0..MaxVal and P-1-MaxVal..P-1
MaxVal == 1
\* DEGREE ranges over 0..MaxDegree
MaxDegree == 11
\* the memory test programs use the addresses 5..5+MaxAddr
MaxAddr == 1
\* generate_random_port draws from PORT_MIN..PORT_MIN+MaxPort and PORT_END-1
MaxPort == 1
\* health checks are counted up to MaxPolls
MaxPolls == 3

----------------------------------------------------------------------------
(* Program constants *)

WIDTH == 16
NUM_EXTERNAL_ROUNDS == 8
NUM_INTERNAL_ROUNDS == 13
NUM_ROUNDS == NUM_EXTERNAL_ROUNDS + NUM_INTERNAL_ROUNDS
\* the BabyBear modulus 2^31 - 2^27 + 1
P == 2013265921
\* rng.gen_range(1024..49152)
PORT_MIN == 1024
PORT_END == 49152
\* the assertion bound of Poseidon2SkinnyChip::default
MIN_DEGREE == 9
\* 2^-32 mod P: what the field's Montgomery reduction multiplies a raw value by
MONTY_R_INVERSE == 943718400
\* raw (Montgomery-form) value of p3_baby_bear::MONTY_INVERSE
MONTY_INVERSE == 1

\* raw (Montgomery-form) values of the 16 diagonal constants: the table
\* [-2, 1, 2, 4, ..., 2^13, 2^15] stored as value * 2^32 mod P
POSEIDON2_INTERNAL_MATRIX_DIAG_16_BABYBEAR_MONTY ==
    << 1476395013, 268435454, 536870908, 1073741816, 134217711, 268435422,
       536870844, 1073741688, 134217455, 268434910, 536869820, 1073739640,
       134213359, 268426718, 536853436, 134147823 >>

----------------------------------------------------------------------------
(* Field arithmetic (AbstractField over BabyBear).  Intermediate values    *)
(* stay below 2^31; the reductions use P = 15 * 2^27 + 1, that is          *)
(* 15 * 2^27 = -1 (mod P).                                                 *)
(* CHOOSE r \in {F(t) : t \in {e}} : TRUE below is F(e) with e evaluated    *)
(* once, before F is entered.                                              *)

Add(a, b) == IF a >= P - b THEN a - (P - b) ELSE a + b

Sub(a, b) == IF a >= b THEN a - b ELSE a + (P - b)

Double(a) == Add(a, a)

\* v * c mod P for c in 0..2^15: v = vh * 2^16 + vl, and q = vh * c is reduced
\* through q * 2^16 = (q mod 2^11) * 2^16 + (q div 2^11) * 2^27
MulSmall(v, c) ==
    LET q == (v \div 65536) * c
        qh == q \div 2048
    IN  Sub(Add(Add(((v % 65536) * c) % P, (q % 2048) * 65536), (qh % 15) * 134217728),
            qh \div 15)

\* a * b mod P, b taken in limbs of 15 bits
Mul(a, b) ==
    Add(Add(MulSmall(a, b % 32768), MulSmall(MulSmall(a, (b \div 32768) % 32768), 32768)),
        IF b \div 1073741824 = 1 THEN MulSmall(MulSmall(a, 32768), 32768) ELSE 0)

\* PrimeField32::as_canonical_u32: leaves Montgomery form, raw * 2^-32 mod P
as_canonical_u32(raw) == Mul(raw, MONTY_R_INVERSE)

\* AbstractField::from_wrapped_u32: the field element of a u32, reduced mod P
from_wrapped_u32(n) == n % P

\* a [AF; n] array: the n values of f, each computed once
Array(f, n) == SubSeq(f, 1, n)

RECURSIVE SumRange(_, _, _)
\* the field sum of s[lo..hi] (1-based, inclusive), added pairwise
SumRange(s, lo, hi) ==
    IF lo > hi THEN 0
    ELSE IF lo = hi THEN s[lo]
    ELSE Add(SumRange(s, lo, (lo + hi) \div 2), SumRange(s, ((lo + hi) \div 2) + 1, hi))

\* Iterator::sum over the elements of s
Sum(s) == SumRange(s, 1, Len(s))

----------------------------------------------------------------------------
(* Poseidon2SkinnyChip::default *)

NotBuilt == [tag |-> "NotBuilt"]
Panicked == [tag |-> "Panicked"]
None == [tag |-> "None"]

\* a variant whose assertion is off by one
Poseidon2SkinnyChip_default_strict(degree) ==
    IF ~(degree > MIN_DEGREE)
    THEN Panicked
    ELSE [tag |-> "Chip", fixed_log2_rows |-> None, pad |-> TRUE]

Poseidon2SkinnyChip_default(degree) ==
    IF ~(degree >= MIN_DEGREE)
    THEN Panicked
    ELSE [tag |-> "Chip", fixed_log2_rows |-> None, pad |-> TRUE]

----------------------------------------------------------------------------
(* apply_m_4 *)

\* a variant that commits slots 0 and 2 before slots 3 and 1
apply_m_4_early_overwrite(v) ==
    LET t01 == Add(v[1], v[2])
        t23 == Add(v[3], v[4])
        t0123 == Add(t01, t23)
        t01123 == Add(t0123, v[2])
        t01233 == Add(t0123, v[4])
        va == [v EXCEPT ![1] = Add(t01123, t01)]
        vb == [va EXCEPT ![3] = Add(t01233, t23)]
        vc == [vb EXCEPT ![4] = Add(t01233, Double(vb[1]))]
        vd == [vc EXCEPT ![2] = Add(t01123, Double(vc[3]))]
    IN  vd

apply_m_4(v) ==
    LET t01 == Add(v[1], v[2])
        t23 == Add(v[3], v[4])
        t0123 == Add(t01, t23)
        t01123 == Add(t0123, v[2])
        t01233 == Add(t0123, v[4])
        \* each write reads the slice as it stands at that point
        va == [v EXCEPT ![4] = Add(t01233, Double(v[1]))]
        vb == [va EXCEPT ![2] = Add(t01123, Double(va[3]))]
        vc == [vb EXCEPT ![1] = Add(t01123, t01)]
        vd == [vc EXCEPT ![3] = Add(t01233, t23)]
    IN  vd

----------------------------------------------------------------------------
(* external_linear_layer *)

\* &mut state[j..j + 4] with j 0-based
Slice4(s, j) == SubSeq(s, j + 1, j + 4)

\* for j in (0..WIDTH).step_by(4) { apply_m_4(&mut state[j..j + 4]) }: the four
\* slices are disjoint, so each block is the transform of the block before the loop
apply_m_4_blocks(s) ==
    apply_m_4(Slice4(s, 0)) \o apply_m_4(Slice4(s, 4))
        \o apply_m_4(Slice4(s, 8)) \o apply_m_4(Slice4(s, 12))

\* (0..WIDTH).step_by(4).map(|j| state[j + k]).sum() with k 0-based
column_sum(s, k) == Add(Add(s[k + 1], s[k + 5]), Add(s[k + 9], s[k + 13]))

\* for j in 0..WIDTH { state[j] += sums[j % 4] }
add_sums(m, sums) == Array([j \in 1..WIDTH |-> Add(m[j], sums[((j - 1) % 4) + 1])], WIDTH)

\* for j in 0..WIDTH { state[j] *= sums[j % 4] }
mul_sums(m, sums) == Array([j \in 1..WIDTH |-> Mul(m[j], sums[((j - 1) % 4) + 1])], WIDTH)

\* let sums: [AF; 4] = from_fn(|k| ...)
column_sums(m) == <<column_sum(m, 0), column_sum(m, 1), column_sum(m, 2), column_sum(m, 3)>>

\* a variant that takes the four sums before the blocks are transformed
external_linear_layer_early_sums(s) ==
    CHOOSE r \in {add_sums(m, column_sums(s)) : m \in {apply_m_4_blocks(s)}} : TRUE

\* a variant that multiplies by the sums instead of adding them
external_linear_layer_mul_sums(s) ==
    CHOOSE r \in {mul_sums(m, sums) : m \in {apply_m_4_blocks(s)},
                                       sums \in {column_sums(apply_m_4_blocks(s))}} : TRUE

\* a variant that leaves out the second loop
external_linear_layer_no_sums(s) == apply_m_4_blocks(s)

external_linear_layer(s) ==
    CHOOSE r \in {add_sums(m, column_sums(m)) : m \in {apply_m_4_blocks(s)}} : TRUE

----------------------------------------------------------------------------
(* internal_linear_layer *)

\* a variant that takes the sum after the elements were multiplied
matmul_internal_late_sum(s, diag) ==
    CHOOSE r \in {Array([i \in 1..WIDTH |-> Add(scaled[i], Sum(scaled))], WIDTH) :
                     scaled \in {Array([i \in 1..WIDTH |-> Mul(s[i], diag[i])], WIDTH)}} : TRUE

\* p3_poseidon2::matmul_internal: the sum of the state is taken once, before the
\* loop; iteration i then does state[i] *= diag[i]; state[i] += sum
matmul_internal(s, diag) ==
    CHOOSE r \in {Array([i \in 1..WIDTH |-> Add(Mul(s[i], diag[i]), sum)], WIDTH) :
                     sum \in {Sum(s)}} : TRUE

\* the 16 diagonal constants as field elements, converted from the Montgomery-form table
matmul_constants ==
    Array([i \in 1..WIDTH |->
              from_wrapped_u32(as_canonical_u32(POSEIDON2_INTERNAL_MATRIX_DIAG_16_BABYBEAR_MONTY[i]))],
          WIDTH)

\* the inverse-scale constant as a field element
monty_inverse == from_wrapped_u32(as_canonical_u32(MONTY_INVERSE))

\* state.iter_mut().for_each(|i| *i *= c)
scale_each(s, c) == Array([i \in 1..WIDTH |-> Mul(s[i], c)], WIDTH)

\* a variant that applies the inverse-scale constant twice
internal_linear_layer_scaled_twice(s) ==
    CHOOSE r \in {scale_each(once, monty_inverse) :
                     once \in {scale_each(after, monty_inverse) :
                                  after \in {matmul_internal(s, matmul_constants)}}} : TRUE

internal_linear_layer(s) ==
    CHOOSE r \in {scale_each(after, monty_inverse) :
                     after \in {matmul_internal(s, matmul_constants)}} : TRUE

----------------------------------------------------------------------------
(* Inputs *)

FieldVals == (0..MaxVal) \cup ((P - 1 - MaxVal)..(P - 1))

\* the state that is v at index i and w elsewhere
Vec(i, v, w) == Array([k \in 1..WIDTH |-> IF k = i THEN v ELSE w], WIDTH)

\* a state of 16 distinct large values
Ramp(k) == Array([i \in 1..WIDTH |-> Mul(1000000007, i + k)], WIDTH)

StatesA == {Vec(i, v, w) : i \in 1..WIDTH, v \in FieldVals, w \in FieldVals}
StatesB == {Ramp(k) : k \in 0..MaxVal}

Zero16 == Array([k \in 1..WIDTH |-> 0], WIDTH)
Zero4 == <<0, 0, 0, 0>>

VAdd(s, t) == Array([k \in 1..WIDTH |-> Add(s[k], t[k])], WIDTH)
VScale(c, s) == Array([k \in 1..WIDTH |-> Mul(c, s[k])], WIDTH)

----------------------------------------------------------------------------
(* Specification of the chip construction and the 4x4 block transform *)

ChipIdle == DEGREE = 0 /\ chip = NotBuilt /\ x_in = Zero4 /\ x = Zero4 /\ m4_pc = "idle"

LayerIdle ==
    /\ state_in = Zero16 /\ other_in = Zero16 /\ scalar = 0
    /\ state = Zero16 /\ other = Zero16 /\ of_sum = Zero16 /\ of_scaled = Zero16
    /\ layer = "idle"

RuntimeIdle ==
    /\ test = "idle" /\ program = <<>> /\ ip = 1 /\ memory = <<>> /\ record = <<>>
    /\ status = "Idle" /\ trace = "none"

NoEnv == [tag |-> "NoEnv"]
NoProver == [tag |-> "NoProver"]

ProverIdle ==
    /\ host_port = NoEnv /\ prover = NoProver /\ server_port = "" /\ server = "none"
    /\ thread = "none" /\ pc = "idle" /\ polls = 0 /\ last_response = "none" /\ requests = {}

InitChip ==
    /\ DEGREE \in 0..MaxDegree
    /\ chip = NotBuilt
    /\ x_in \in [1..4 -> FieldVals]
    /\ x = x_in
    /\ m4_pc = "ready"
    /\ LayerIdle
    /\ RuntimeIdle
    /\ ProverIdle

\* Poseidon2SkinnyChip::<DEGREE>::default()
ChipDefault ==
    /\ chip = NotBuilt
    /\ chip' = Poseidon2SkinnyChip_default(DEGREE)
    /\ UNCHANGED <<DEGREE, x_in, x, m4_pc, layerVars, runtimeVars, proverVars>>

\* apply_m_4(&mut x)
ApplyM4 ==
    /\ m4_pc = "ready"
    /\ x' = apply_m_4(x)
    /\ m4_pc' = "done"
    /\ UNCHANGED <<DEGREE, chip, x_in, layerVars, runtimeVars, proverVars>>

NextChip == ChipDefault \/ ApplyM4

SpecChip == InitChip /\ [][NextChip]_vars

----------------------------------------------------------------------------
(* Specification of the two linear layers *)

InitLayers ==
    /\ state_in \in StatesA
    /\ other_in \in StatesB
    /\ scalar \in FieldVals
    /\ state = state_in
    /\ other = other_in
    /\ of_sum = VAdd(state_in, other_in)
    /\ of_scaled = VScale(scalar, state_in)
    /\ layer = "none"
    /\ ChipIdle
    /\ RuntimeIdle
    /\ ProverIdle

\* external_linear_layer(&mut state), on each of the four states
ExternalLinearLayer ==
    /\ layer = "none"
    /\ state' = external_linear_layer(state)
    /\ other' = external_linear_layer(other)
    /\ of_sum' = external_linear_layer(of_sum)
    /\ of_scaled' = external_linear_layer(of_scaled)
    /\ layer' = "external"
    /\ UNCHANGED <<state_in, other_in, scalar, chipVars, runtimeVars, proverVars>>

\* internal_linear_layer(&mut state), on each of the four states
InternalLinearLayer ==
    /\ layer = "none"
    /\ state' = internal_linear_layer(state)
    /\ other' = internal_linear_layer(other)
    /\ of_sum' = internal_linear_layer(of_sum)
    /\ of_scaled' = internal_linear_layer(of_scaled)
    /\ layer' = "internal"
    /\ UNCHANGED <<state_in, other_in, scalar, chipVars, runtimeVars, proverVars>>

NextLayers == ExternalLinearLayer \/ InternalLinearLayer

SpecLayers == InitLayers /\ [][NextLayers]_vars

----------------------------------------------------------------------------
(* The permutation core: 4 external rounds, 13 internal rounds, 4 external *)
(* rounds.  The round constants are a published table that is not part of  *)
(* the sources at hand; RoundConstant stands in for it.                    *)

\* the constant added to element i (1-based) in round r (0-based)
RoundConstant(r, i) == Mul(1000000007, (r * WIDTH) + i)

\* x^7
SBox(v) ==
    CHOOSE r \in {Mul(Mul(v4, v2), v) : v2 \in {Mul(v, v)}, v4 \in {Mul(Mul(v, v), Mul(v, v))}} : TRUE

\* add round constants to all elements, S-box all elements, external linear layer
ExternalRound(s, r) ==
    CHOOSE t \in {external_linear_layer(u) :
                     u \in {Array([i \in 1..WIDTH |-> SBox(Add(s[i], RoundConstant(r, i)))],
                                  WIDTH)}} : TRUE

\* add one round constant to element 0, S-box element 0 only, internal linear layer
InternalRound(s, r) ==
    CHOOSE t \in {internal_linear_layer(u) :
                     u \in {[s EXCEPT ![1] = SBox(Add(s[1], RoundConstant(r, 1)))]}} : TRUE

\* TRUE for the rounds that are external: the first and the last NUM_EXTERNAL_ROUNDS / 2
IsExternalRound(r) ==
    \/ r < NUM_EXTERNAL_ROUNDS \div 2
    \/ r >= (NUM_EXTERNAL_ROUNDS \div 2) + NUM_INTERNAL_ROUNDS

RECURSIVE PermuteStates(_, _)
\* the states after each of the rounds r .. NUM_ROUNDS - 1; states is the sequence
\* of the states so far, the input first
PermuteStates(states, r) ==
    IF r >= NUM_ROUNDS THEN states
    ELSE CHOOSE all \in {PermuteStates(Append(states, next), r + 1) :
                            next \in {IF IsExternalRound(r)
                                      THEN ExternalRound(states[Len(states)], r)
                                      ELSE InternalRound(states[Len(states)], r)}} : TRUE

\* the permutation's output for the input s
Permute(s) == LET all == PermuteStates(<<s>>, 0) IN all[Len(all)]

----------------------------------------------------------------------------
(* The program of tests::test_poseidon2 and the memory programs *)

\* instr::mem(kind, 1, addr, val)
mem(kind, addr, val) == [instr |-> "Mem", kind |-> kind, addr |-> addr, val |-> val]

\* instr::poseidon2([1; WIDTH], output addresses, input addresses)
poseidon2(out_addrs, in_addrs) ==
    [instr |-> "Poseidon2", output |-> out_addrs, input |-> in_addrs]

\* std::array::from_fn(|i| (i + base) as u32)
AddrsFrom(base) == Array([i \in 1..WIDTH |-> (i - 1) + base], WIDTH)

\* a variant whose first block reads back the input addresses
instructions_read_inputs(input, output, input_1, output_1, blocks) ==
    Array([i \in 1..WIDTH |-> mem("Write", i - 1, input[i])], WIDTH)
    \o <<poseidon2(AddrsFrom(WIDTH), AddrsFrom(0))>>
    \o Array([i \in 1..WIDTH |-> mem("Read", i - 1, output[i])], WIDTH)
    \o (IF blocks = 1 THEN <<>>
        ELSE Array([i \in 1..WIDTH |-> mem("Write", (2 * WIDTH) + (i - 1), input_1[i])], WIDTH)
             \o <<poseidon2(AddrsFrom(3 * WIDTH), AddrsFrom(2 * WIDTH))>>
             \o Array([i \in 1..WIDTH |-> mem("Read", (i - 1) + (3 * WIDTH), output_1[i])], WIDTH))

\* the instructions of the test: the first block, and with blocks = 2 the second
instructions(input, output, input_1, output_1, blocks) ==
    Array([i \in 1..WIDTH |-> mem("Write", i - 1, input[i])], WIDTH)
    \o <<poseidon2(AddrsFrom(WIDTH), AddrsFrom(0))>>
    \o Array([i \in 1..WIDTH |-> mem("Read", (i - 1) + WIDTH, output[i])], WIDTH)
    \o (IF blocks = 1 THEN <<>>
        ELSE Array([i \in 1..WIDTH |-> mem("Write", (2 * WIDTH) + (i - 1), input_1[i])], WIDTH)
             \o <<poseidon2(AddrsFrom(3 * WIDTH), AddrsFrom(2 * WIDTH))>>
             \o Array([i \in 1..WIDTH |-> mem("Read", (i - 1) + (3 * WIDTH), output_1[i])], WIDTH))

\* the test's program for the inputs, the expected outputs taken from the reference
\* permutation (inner_perm().permute)
PoseidonProgram(input, input_1, blocks) ==
    instructions(input, Permute(input), input_1, Permute(input_1), blocks)

\* let input = [1; WIDTH]
Ones == Vec(1, 1, 1)

PoseidonInputs ==
    {Ones} \cup {Ramp(k) : k \in 0..MaxVal} \cup {Vec(1, v, 0) : v \in FieldVals}

PoseidonPrograms ==
    {PoseidonProgram(input, input, 1) : input \in PoseidonInputs}
        \cup {PoseidonProgram(Ones, input_1, 2) : input_1 \in PoseidonInputs}

MemAddrs == 5..(5 + MaxAddr)

\* write(a, v); read(a, w), alone or after an earlier write of u and followed by
\* two more accesses
MemoryPrograms ==
    {<<mem("Write", a, v), mem("Read", a, w)>> : a \in MemAddrs, v \in FieldVals, w \in FieldVals}
        \cup {<<mem("Write", a, u), mem("Write", a, v), mem("Read", a, w),
                mem("Write", a + 1, w), mem("Read", a + 1, w)>> :
                 a \in MemAddrs, u \in FieldVals, v \in {0, P - 1}, w \in {0, P - 1}}

----------------------------------------------------------------------------
(* The instruction runtime: Ready -> Executing -> Halted, or Faulted *)

\* the value stored at addr, or Unwritten
Unwritten == [tag |-> "Unwritten"]
Lookup(m, addr) == IF addr \in DOMAIN m THEN m[addr] ELSE Unwritten

\* m with v stored at addr (overwriting or initializing)
Store(m, addr, v) == [a \in (DOMAIN m) \cup {addr} |-> IF a = addr THEN v ELSE m[a]]

RECURSIVE StoreAll(_, _, _, _)
\* m with vals[k..] stored at addrs[k..]
StoreAll(m, addrs, vals, k) ==
    IF k > Len(addrs) THEN m
    ELSE CHOOSE r \in {StoreAll(n, addrs, vals, k + 1) :
                          n \in {Store(m, addrs[k], vals[k])}} : TRUE

\* a read that does not compare the stored value with the declared one
ReadMatches_unchecked(m, i) == TRUE

\* the looked-up value equals the value the program declares
ReadMatches(m, i) == i.addr \in DOMAIN m /\ m[i.addr] = i.val

InitRuntime ==
    /\ test \in {"poseidon2", "memory"}
    /\ program \in (IF test = "poseidon2" THEN PoseidonPrograms ELSE MemoryPrograms)
    /\ ip = 1
    /\ memory = <<>>
    /\ record = <<>>
    /\ status = "Ready"
    /\ trace = "none"
    /\ ChipIdle
    /\ LayerIdle
    /\ ProverIdle

\* after an instruction: the next one, or Halted after the last
Advance ==
    /\ ip' = ip + 1
    /\ status' = IF ip = Len(program) THEN "Halted" ELSE "Executing"

\* Runtime::run: starts executing the program
Run ==
    /\ status = "Ready"
    /\ status' = "Executing"
    /\ UNCHANGED <<test, program, ip, memory, record, trace, chipVars, layerVars, proverVars>>

\* MemoryAccess{Write, addr, value}
ExecMemWrite ==
    /\ status = "Executing"
    /\ program[ip].instr = "Mem" /\ program[ip].kind = "Write"
    /\ memory' = Store(memory, program[ip].addr, program[ip].val)
    /\ record' = Append(record, [event |-> "Write", addr |-> program[ip].addr,
                                 val |-> program[ip].val])
    /\ Advance
    /\ UNCHANGED <<test, program, trace, chipVars, layerVars, proverVars>>

\* MemoryAccess{Read, addr, expected_value}
ExecMemRead ==
    /\ status = "Executing"
    /\ program[ip].instr = "Mem" /\ program[ip].kind = "Read"
    /\ IF ReadMatches(memory, program[ip])
       THEN /\ record' = Append(record, [event |-> "Read", addr |-> program[ip].addr,
                                         val |-> program[ip].val])
            /\ Advance
       ELSE \* MemoryConsistencyError
            /\ status' = "Faulted"
            /\ UNCHANGED <<ip, record>>
    /\ UNCHANGED <<test, program, memory, trace, chipVars, layerVars, proverVars>>

\* PermutationInvoke{seed, input_addrs, output_addrs}
ExecPoseidon2 ==
    /\ status = "Executing"
    /\ program[ip].instr = "Poseidon2"
    /\ LET input == Array([i \in 1..WIDTH |-> Lookup(memory, program[ip].input[i])], WIDTH)
           states == PermuteStates(<<input>>, 0)
       IN  /\ memory' = StoreAll(memory, program[ip].output, states[Len(states)], 1)
           /\ record' = Append(record, [event |-> "Poseidon2", input |-> input,
                                        states |-> states, output |-> states[Len(states)]])
    /\ Advance
    /\ UNCHANGED <<test, program, trace, chipVars, layerVars, proverVars>>

\* run_test_machine(vec![runtime.record], ..): only after runtime.run().unwrap() returned
GenerateTrace ==
    /\ status = "Halted"
    /\ trace = "none"
    /\ trace' = "generated"
    /\ UNCHANGED <<test, program, ip, memory, record, status, chipVars, layerVars, proverVars>>

NextRuntime == Run \/ ExecMemWrite \/ ExecMemRead \/ ExecPoseidon2 \/ GenerateTrace

SpecRuntime == InitRuntime /\ [][NextRuntime]_vars

----------------------------------------------------------------------------
(* Groth16Prover::new and wait_for_healthy_server, with the spawned thread *)
(* and the Gnark server process it starts                                  *)

\* generate_random_port().to_string()
RandomPorts ==
    {ToString(n) : n \in (PORT_MIN..(PORT_MIN + MaxPort)) \cup {PORT_END - 1}}

\* HOST_PORT set to the string v
Env(v) == [tag |-> "Set", value |-> v]

\* values HOST_PORT may hold
HostPorts == {Env("8080"), Env("1024")}

\* env::var("HOST_PORT").unwrap_or_else(|_| generate_random_port().to_string())
PortChoices(env) == IF env = NoEnv THEN RandomPorts ELSE {env.value}

\* the port in format!("http://localhost:{}/healthz", self.port)
HealthzPort(self) == self.port

\* what a GET on /healthz at port q gets: a refused connection unless the server
\* listens there, a non-OK status until the server is ready
Healthz(q) ==
    IF server_port = q /\ server = "ready" THEN "OK"
    ELSE IF server_port = q /\ server = "listening" THEN "NotOK"
    ELSE "Err"

\* a check that takes every answered request for a healthy server
IsHealthy_any_status(response) == response # "Err"

\* Ok(response) with response.status() == StatusCode::OK
IsHealthy(response) == response = "OK"

CountPoll(n) == IF n < MaxPolls THEN n + 1 ELSE n

InitProver ==
    /\ host_port \in {NoEnv} \cup HostPorts
    /\ prover = NoProver
    /\ server_port = ""
    /\ server = "none"
    /\ thread = "none"
    /\ pc = "start"
    /\ polls = 0
    /\ last_response = "none"
    /\ requests = {}
    /\ ChipIdle
    /\ LayerIdle
    /\ RuntimeIdle

\* Groth16Prover::new up to the call of wait_for_healthy_server: picks the port,
\* spawns the thread with it and builds the prover with its clone
New ==
    /\ pc = "start"
    /\ \E port \in PortChoices(host_port) :
          /\ server_port' = port
          /\ prover' = [port |-> port]
    /\ thread' = "spawned"
    /\ pc' = "polling"
    /\ UNCHANGED <<host_port, server, polls, last_response, requests,
                   chipVars, layerVars, runtimeVars>>

\* one iteration of the loop of wait_for_healthy_server: the request, and either the
\* return of Ok(()) through new, or the branch to the sleep
HealthCheck ==
    /\ pc = "polling"
    /\ LET response == Healthz(HealthzPort(prover))
       IN  /\ last_response' = response
           /\ requests' = requests \cup {<<HealthzPort(prover), response>>}
           /\ pc' = IF IsHealthy(response) THEN "returned" ELSE "sleeping"
    /\ polls' = CountPoll(polls)
    /\ UNCHANGED <<host_port, prover, server_port, server, thread,
                   chipVars, layerVars, runtimeVars>>

\* a loop that gives up after MaxPolls requests instead of polling again
Wake_retry_limit ==
    /\ pc = "sleeping"
    /\ pc' = IF polls >= MaxPolls THEN "failed" ELSE "polling"
    /\ UNCHANGED <<host_port, prover, server_port, server, thread, polls, last_response,
                   requests, chipVars, layerVars, runtimeVars>>

\* thread::sleep(Duration::from_secs(1)) is over
Wake ==
    /\ pc = "sleeping"
    /\ pc' = "polling"
    /\ UNCHANGED <<host_port, prover, server_port, server, thread, polls, last_response,
                   requests, chipVars, layerVars, runtimeVars>>

\* the thread's Command::new("go")...spawn().unwrap(): the process starts, or the
\* unwrap panics
ThreadSpawnsServer ==
    /\ thread = "spawned"
    /\ \/ server' = "running" /\ thread' = "waiting"
       \/ server' = server /\ thread' = "panicked"
    /\ UNCHANGED <<host_port, prover, server_port, pc, polls, last_response, requests,
                   chipVars, layerVars, runtimeVars>>

\* the server process opens its port
ServerListens ==
    /\ server = "running"
    /\ server' = "listening"
    /\ UNCHANGED <<host_port, prover, server_port, thread, pc, polls, last_response, requests,
                   chipVars, layerVars, runtimeVars>>

\* the server process starts to answer /healthz with 200
ServerReady ==
    /\ server = "listening"
    /\ server' = "ready"
    /\ UNCHANGED <<host_port, prover, server_port, thread, pc, polls, last_response, requests,
                   chipVars, layerVars, runtimeVars>>

\* the server process exits; child.wait() returns, and the thread panics unless the
\* exit status is a success
ServerExits ==
    /\ server \in {"running", "listening", "ready"}
    /\ server' = "exited"
    /\ thread' \in {"finished", "panicked"}
    /\ UNCHANGED <<host_port, prover, server_port, pc, polls, last_response, requests,
                   chipVars, layerVars, runtimeVars>>

NextProver ==
    New \/ HealthCheck \/ Wake \/ ThreadSpawnsServer \/ ServerListens \/ ServerReady \/ ServerExits

SpecProver == InitProver /\ [][NextProver]_vars

----------------------------------------------------------------------------
(* Properties of the chip construction and of apply_m_4 (SpecChip) *)

\* c0*v[0] + c1*v[1] + c2*v[2] + c3*v[3] in the field
Lin4(c0, c1, c2, c3, v) ==
    Add(Add(Mul(v[1], c0), Mul(v[2], c1)), Add(Mul(v[3], c2), Mul(v[4], c3)))

\* the 4x4 transform in closed form, every output taken from the same input v
M4Closed(v) ==
    << Lin4(2, 3, 1, 1, v), Lin4(1, 2, 3, 1, v), Lin4(1, 1, 2, 3, v), Lin4(3, 1, 1, 2, v) >>

\* C1: after apply_m_4, slot 0 = 2*x0+3*x1+x2+x3, slot 1 = x0+2*x1+3*x2+x3,
\* slot 2 = x0+x1+2*x2+3*x3 and slot 3 = 3*x0+x1+x2+2*x3 (mod p), where x0..x3 are
\* the values the slice held before the call: no output reads an overwritten slot.
C1_ApplyM4ClosedForm ==
    m4_pc = "done" =>
        /\ x[1] = Lin4(2, 3, 1, 1, x_in)
        /\ x[2] = Lin4(1, 2, 3, 1, x_in)
        /\ x[3] = Lin4(1, 1, 2, 3, x_in)
        /\ x[4] = Lin4(3, 1, 1, 2, x_in)

\* apply_m_4 has run on a slice of four different values, on which committing
\* slots 0 and 2 first would have given another result
C1_Witness ==
    /\ m4_pc = "done"
    /\ Cardinality({x_in[k] : k \in 1..4}) = 4
    /\ x = M4Closed(x_in)
    /\ x # apply_m_4_early_overwrite(x_in)

----------------------------------------------------------------------------
(* Properties of the linear layers (SpecLayers) *)

\* the state after the 4x4 transform ran on each of the four blocks, in closed form
BlocksM4Closed(s) ==
    M4Closed(Slice4(s, 0)) \o M4Closed(Slice4(s, 4))
        \o M4Closed(Slice4(s, 8)) \o M4Closed(Slice4(s, 12))

\* index (1-based) of the element at the same intra-block position as j in block b
SamePos(j, b) == 4 * b + ((j - 1) % 4) + 1

\* t is m plus, at every index, the sum of the four elements of m at its position
ExternalOf(s, t) ==
    LET m == BlocksM4Closed(s)
    IN  \A j \in 1..WIDTH :
            t[j] = Add(m[j], Add(Add(m[SamePos(j, 0)], m[SamePos(j, 1)]),
                                 Add(m[SamePos(j, 2)], m[SamePos(j, 3)])))

\* C2: external_linear_layer yields t with t[j] = m[j] + (m[j mod 4] + m[4 + j mod 4]
\* + m[8 + j mod 4] + m[12 + j mod 4]) for every j, where m is the input with the
\* 4x4 transform applied to each block: the sums are over the transformed blocks.
C2_ExternalLayerFormula ==
    layer = "external" => ExternalOf(state_in, state) /\ ExternalOf(other_in, other)

\* the external layer has run on a state with different values in different blocks
C2_Witness ==
    /\ layer = "external"
    /\ state_in[1] = 1 /\ state_in[6] = P - 1
    /\ other_in = Ramp(1)
    /\ ExternalOf(other_in, other)

\* C7: external_linear_layer is linear: L(a + b) = L(a) + L(b) and
\* L(c*a) = c*L(a) elementwise mod p, and L of the zero state is the zero state.
C7_ExternalLayerLinear ==
    layer = "external" =>
        /\ of_sum = VAdd(state, other)
        /\ of_scaled = VScale(scalar, state)
        /\ state_in = Zero16 => state = Zero16

\* the layer has run on a non-zero state, a second state and a scalar other than 0 and 1
C7_Witness ==
    /\ layer = "external"
    /\ scalar = P - 2
    /\ state_in # Zero16
    /\ of_scaled # state
    /\ of_sum # state

IsUnit(s) == \E i \in 1..WIDTH : s = Vec(i, 1, 0)

\* C8: external_linear_layer applied to the unit state of any index i gives a state
\* with no zero element: every input has a non-zero coefficient in every output.
C8_ExternalLayerMixesAll ==
    (layer = "external" /\ IsUnit(state_in)) => \A j \in 1..WIDTH : state[j] # 0

\* the layer has run on the unit state of the last index
C8_Witness ==
    /\ layer = "external"
    /\ state_in = Vec(WIDTH, 1, 0)
    /\ state[1] # 0

\* canonical value of the i-th diagonal constant
DiagCanonical(i) == as_canonical_u32(POSEIDON2_INTERNAL_MATRIX_DIAG_16_BABYBEAR_MONTY[i])

\* canonical value of the inverse-scale constant
MontyInverseCanonical == as_canonical_u32(MONTY_INVERSE)

\* the product of a 16x16 matrix, given by its entries M(i, j), and the state s
MatVec(M(_, _), s) ==
    Array([i \in 1..WIDTH |-> Sum(Array([j \in 1..WIDTH |-> Mul(s[j], M(i, j))], WIDTH))], WIDTH)

\* entries of the identity plus diag(d)
IdentityPlusDiag(i, j) == IF i = j THEN Add(1, DiagCanonical(i)) ELSE 0

\* entries of the all-ones matrix plus diag(d)
OnesPlusDiag(i, j) == IF i = j THEN Add(1, DiagCanonical(i)) ELSE 1

\* every element of s multiplied once by the inverse-scale constant
ScaledOnce(s) == Array([i \in 1..WIDTH |-> Mul(MontyInverseCanonical, s[i])], WIDTH)

\* C3 as stated: internal_linear_layer multiplies the state by I + diag(d) and then
\* every element once by MONTY_INVERSE.
C3_IdentityPlusDiag ==
    layer = "internal" => state = ScaledOnce(MatVec(IdentityPlusDiag, state_in))

\* C3 as amended: internal_linear_layer multiplies the state by J + diag(d), J the
\* all-ones matrix and d the canonical values of the 16 diagonal constants, and then
\* multiplies every one of the 16 elements exactly once by MONTY_INVERSE.
C3_OnesPlusDiag ==
    layer = "internal" =>
        /\ state = ScaledOnce(MatVec(OnesPlusDiag, state_in))
        /\ other = ScaledOnce(MatVec(OnesPlusDiag, other_in))

\* the internal layer has run on a state where the two matrices give different results
C3_Witness ==
    /\ layer = "internal"
    /\ state_in = Vec(2, 1, P - 1)
    /\ state # ScaledOnce(MatVec(IdentityPlusDiag, state_in))

\* out[i] = MONTY_INVERSE * (s[0] + ... + s[15] + d_i * s[i])
InternalOf(s, out) ==
    \A i \in 1..WIDTH :
        out[i] = Mul(MontyInverseCanonical, Add(Sum(s), Mul(DiagCanonical(i), s[i])))

\* C10: element i of internal_linear_layer's result is MONTY_INVERSE * (s[0] + ... +
\* s[15] + d_i * s[i]) mod p, the sum taken over the state before the call; so every
\* output depends on all 16 inputs: on a unit state no output is zero.
C10_InternalLayerFormula ==
    layer = "internal" =>
        /\ InternalOf(state_in, state)
        /\ InternalOf(other_in, other)
        /\ IsUnit(state_in) => \A i \in 1..WIDTH : state[i] # 0

\* the internal layer has run on the unit state of index 0, whose own coefficient
\* 1 + d_0 is -1, and on a state of 16 different values
C10_Witness ==
    /\ layer = "internal"
    /\ state_in = Vec(1, 1, 0)
    /\ other_in = Ramp(0)
    /\ state[1] = Mul(MontyInverseCanonical, P - 1)
    /\ state[16] = MontyInverseCanonical

----------------------------------------------------------------------------
(* Properties of the instruction runtime (SpecRuntime) *)

\* the values the 16 addresses hold in memory m
ValuesAt(m, addrs) == Array([i \in 1..WIDTH |-> m[addrs[i]]], WIDTH)

\* C4: a program that writes 16 values, invokes the permutation on them and reads the
\* 16 outputs back, declaring the reference permutation's output, runs to Halted
\* with no fault, with one such block or two; right after a PermutationInvoke the
\* output addresses hold the permutation of what the input addresses held.
C4_PermutationProgramRuns ==
    test = "poseidon2" =>
        /\ status # "Faulted"
        /\ status = "Executing" => ip <= Len(program)
        /\ status = "Halted" => ip = Len(program) + 1 /\ Len(record) = Len(program)
        /\ (ip > 1 /\ program[ip - 1].instr = "Poseidon2") =>
              ValuesAt(memory, program[ip - 1].output)
                  = Permute(ValuesAt(memory, program[ip - 1].input))

\* the program with two blocks has halted after all its 66 instructions
C4_Witness ==
    /\ test = "poseidon2"
    /\ status = "Halted"
    /\ Len(program) = 2 * ((2 * WIDTH) + 1)
    /\ Len(record) = Len(program)
    /\ program[1].val # program[(2 * WIDTH) + 2].val

\* the executed instructions that stored a value at address a: event k of the record
\* belongs to instruction k of the program
WritesTo(a) ==
    {k \in 1..Len(record) :
        \/ record[k].event = "Write" /\ record[k].addr = a
        \/ record[k].event = "Poseidon2" /\ \E i \in 1..WIDTH : program[k].output[i] = a}

\* the value instruction k stored at address a
StoredBy(k, a) ==
    IF record[k].event = "Write" THEN record[k].val
    ELSE record[k].output[CHOOSE i \in 1..WIDTH : program[k].output[i] = a]

\* TRUE if the last write to address a stored the value v
LastWriteStored(a, v) ==
    /\ WritesTo(a) # {}
    /\ StoredBy(CHOOSE k \in WritesTo(a) : \A j \in WritesTo(a) : j <= k, a) = v

\* C5: a MemoryAccess{Read, a, v} executed when the last write to a stored v appends
\* one read event and does not fault (write; read gives exactly two events); with
\* another declared value it is a fatal MemoryConsistencyError: the execution stops
\* at that instruction, no later instruction is executed and no trace is produced.
C5_ReadChecksLastWrite ==
    [][/\ status # "Faulted"
       /\ (/\ status = "Executing"
           /\ program[ip].instr = "Mem"
           /\ program[ip].kind = "Read") =>
              IF LastWriteStored(program[ip].addr, program[ip].val)
              THEN /\ status' # "Faulted"
                   /\ record' = Append(record, [event |-> "Read", addr |-> program[ip].addr,
                                                val |-> program[ip].val])
                   /\ (Len(program) = 2 => status' = "Halted" /\ Len(record') = 2)
              ELSE /\ status' = "Faulted"
                   /\ ip' = ip
                   /\ record' = record
                   /\ trace' = "none"]_vars

\* a read that declares the value of an overwritten write has faulted, with two more
\* instructions left in the program
C5_Witness ==
    /\ test = "memory"
    /\ status = "Faulted"
    /\ Len(program) = 5
    /\ program[1].val = program[3].val
    /\ ip = 3
    /\ Len(record) = 2
    /\ trace = "none"

----------------------------------------------------------------------------
(* Properties of the prover start-up (SpecProver) *)

\* C9: Groth16Prover::new returns a prover only after a GET on /healthz at the
\* prover's own port, the port the server was started with, was answered 200 OK;
\* a non-OK status or a failed request never lets it return.
C9_ReturnsOnlyAfterHealthy ==
    pc = "returned" =>
        /\ prover # NoProver
        /\ prover.port = server_port
        /\ <<prover.port, "OK">> \in requests
        /\ last_response = "OK"
        /\ thread # "none"

\* new has returned for a randomly drawn port after a refused request and a non-OK answer
C9_Witness ==
    /\ pc = "returned"
    /\ host_port = NoEnv
    /\ <<prover.port, "Err">> \in requests
    /\ <<prover.port, "NotOK">> \in requests
    /\ <<prover.port, "OK">> \in requests

\* the server process can no longer answer: it has exited, or the thread panicked
\* before it started one
ServerGone == server = "exited" \/ (thread = "panicked" /\ server = "none")

\* some request of the loop was answered 200 OK
AnsweredOK == \E r \in requests : r[2] = "OK"

\* C11: wait_for_healthy_server has no failure exit and no retry limit. It is only
\* ever before the loop, at a request, in the sleep or returned with Ok(()), never
\* returned with an Err; it has returned exactly when some request was answered
\* 200 OK; a request with any other outcome goes to the sleep, whatever the number
\* of requests made so far, and the sleep goes back to the next request. Hence once
\* the server process has exited, or the thread panicked without starting it,
\* Groth16Prover::new stays in the loop and never returns.
C11_NoFailureExitNoRetryLimit ==
    /\ [](pc \in {"start", "polling", "sleeping", "returned"})
    /\ [](pc = "returned" <=> AnsweredOK)
    /\ [][(pc = "polling" /\ pc' # "polling") =>
             /\ requests' = requests \cup {<<prover.port, Healthz(prover.port)>>}
             /\ pc' = IF Healthz(prover.port) = "OK" THEN "returned" ELSE "sleeping"]_vars
    /\ [][pc = "sleeping" => pc' \in {"sleeping", "polling"}]_vars
    /\ [][(ServerGone /\ pc # "returned") => (ServerGone' /\ pc' # "returned")]_vars

\* the server process has exited with a failure, the thread has panicked, and the loop
\* is at its next request after MaxPolls requests, none of them answered 200 OK
C11_Witness ==
    /\ pc = "polling"
    /\ polls = MaxPolls
    /\ server = "exited"
    /\ thread = "panicked"
    /\ ~AnsweredOK
    /\ requests # {}

====
